---- MODULE Spec2Model ----
(***************************************************************************)
(* starbot: the ASTAP solver wrapper (src/src/solver/astap.rs), the angle  *)
(* type (src/src/math.rs) and the coordinate model (src/src/common.rs).    *)
(*                                                                         *)
(* The module holds several specifications over one set of variables:      *)
(*   Spec          AstapSolver::solve: child process, stdout reader        *)
(*                 thread and the polling loop, interleaved                *)
(*   SpecAngle     Angle::normalize                                        *)
(*   SpecGmst      earth_rotation_angle, greenwich_mean_sidereal_time      *)
(*   SpecAltAz     SkyCoord::alt_az                                        *)
(*   SpecTransform WorldTransform::pixel_to_world / world_to_pixel         *)
(*   SpecExtract   extract_value                                           *)
(*   SpecWcs       parse_wcs, line by line                                 *)
(*   SpecNew       AstapSolver::new                                        *)
(* A specification leaves the variables of the others at their idle value. *)
(***************************************************************************)
EXTENDS Integers, Sequences, FiniteSets, TLC

VARIABLES
    \* ---- AstapSolver::solve ----
    pc,              \* position of the thread that called solve
    child,           \* the astap_cli process: "none", "running", "exited", "killed"
    stdout_lines,    \* lines written to the pipe and not yet read
    written,         \* how many lines the child has written
    num_iter,        \* AtomicU8 shared by the reader thread and the poll loop
    incs,            \* how many fetch_add the reader has done (modification order)
    seen,            \* place in the modification order of the last load of the poll loop
    loaded,          \* the value that load returned
    reader,          \* the stdout reader thread: "none", "reading", "done", "panicked"
    pending,         \* what the closure given to thread::scope returned
    result,          \* what solve returned
    counted_at_exit, \* num_iter when the child process ended (-1: it has not)
    wcs_read,        \* whether parse_wcs has opened the .wcs file
    polled,          \* what the last try_wait returned: "none", "running", "exited", "failed"
    \* ---- pure functions: the call made and what it returned ----
    call,
    out,
    \* ---- parse_wcs ----
    wcs_lines,       \* lines of the .wcs file not yet read
    wcs_result,      \* the PlateSolveResult under construction
    wcs_pc,          \* "idle", "open", "reading", "Ok", "IoError", "ParseFloatError", "panic"
    wcs_last         \* the line read last

vars == <<pc, child, stdout_lines, written, num_iter, incs, seen, loaded, reader,
          pending, result, counted_at_exit, wcs_read, polled, call, out,
          wcs_lines, wcs_result, wcs_pc, wcs_last>>

solveVars == <<pc, child, stdout_lines, written, num_iter, incs, seen, loaded, reader,
               pending, result, counted_at_exit, wcs_read, polled>>
callVars == <<call, out>>
wcsVars == <<wcs_lines, wcs_result, wcs_pc, wcs_last>>

NoCall == [fn |-> "none"]

SolveIdle ==
    /\ pc = "idle" /\ child = "none" /\ stdout_lines = <<>> /\ written = 0
    /\ num_iter = 0 /\ incs = 0 /\ seen = 0 /\ loaded = 0 /\ reader = "none"
    /\ pending = "none" /\ result = "none" /\ counted_at_exit = -1
    /\ wcs_read = FALSE /\ polled = "none"

CallIdle == call = NoCall /\ out = NoCall

WcsIdle ==
    /\ wcs_lines = <<>> /\ wcs_result = NoCall /\ wcs_pc = "idle" /\ wcs_last = NoCall

(***************************************************************************)
(* AstapSolver::solve                                                      *)
(***************************************************************************)

\* Lines the child may write before it ends.
MaxLines == 4

\* AtomicU8
U8Modulus == 256

\* the poll loop gives up at this many banners
MaxIter == 3

\* A line of the child's stdout: a banner ("ASTAP solver version ..."),
\* any other text, or bytes that are not UTF-8 (lines() yields Err for them).
LineKinds == {"banner", "other", "invalid_utf8"}

\* line.unwrap().starts_with("ASTAP solver version")
IsBanner(line) == line = "banner"

\* cmd.spawn()? : the process starts, stdout piped, and the scope spawns the
\* reader thread; or spawn fails and solve returns the I/O error at once.
Spawn ==
    /\ pc = "spawn"
    /\ \/ /\ child' = "running"
          /\ reader' = "reading"
          /\ pc' = "sleep"
          /\ UNCHANGED result
       \/ /\ result' = "IoError"
          /\ pc' = "done"
          /\ UNCHANGED <<child, reader>>
    /\ UNCHANGED <<stdout_lines, written, num_iter, incs, seen, loaded, pending,
                   counted_at_exit, wcs_read>>
    /\ UNCHANGED polled
    /\ UNCHANGED <<callVars, wcsVars>>

\* The child writes one more line to its stdout.
ChildWrite ==
    /\ child = "running"
    /\ written < MaxLines
    /\ \E line \in LineKinds : stdout_lines' = Append(stdout_lines, line)
    /\ written' = written + 1
    /\ UNCHANGED <<pc, child, num_iter, incs, seen, loaded, reader, pending, result,
                   counted_at_exit, wcs_read>>
    /\ UNCHANGED polled
    /\ UNCHANGED <<callVars, wcsVars>>

\* The child ends by itself.
ChildExit ==
    /\ child = "running"
    /\ child' = "exited"
    /\ counted_at_exit' = num_iter
    /\ UNCHANGED <<pc, stdout_lines, written, num_iter, incs, seen, loaded, reader,
                   pending, result, wcs_read>>
    /\ UNCHANGED polled
    /\ UNCHANGED <<callVars, wcsVars>>

\* for line in stdout_lines { if line.unwrap().starts_with(..) { fetch_add(1) } }
ReaderNext ==
    /\ reader = "reading"
    /\ stdout_lines # <<>>
    /\ LET line == Head(stdout_lines) IN
        /\ stdout_lines' = Tail(stdout_lines)
        /\ IF line = "invalid_utf8"
           THEN /\ reader' = "panicked"
                /\ UNCHANGED <<num_iter, incs>>
           ELSE IF IsBanner(line)
           THEN /\ num_iter' = (num_iter + 1) % U8Modulus
                /\ incs' = incs + 1
                /\ UNCHANGED reader
           ELSE UNCHANGED <<num_iter, incs, reader>>
    /\ UNCHANGED <<pc, child, written, seen, loaded, pending, result,
                   counted_at_exit, wcs_read>>
    /\ UNCHANGED polled
    /\ UNCHANGED <<callVars, wcsVars>>

\* The pipe is empty and its write end is closed: the iterator ends.
ReaderEof ==
    /\ reader = "reading"
    /\ stdout_lines = <<>>
    /\ child \in {"exited", "killed"}
    /\ reader' = "done"
    /\ UNCHANGED <<pc, child, stdout_lines, written, num_iter, incs, seen, loaded,
                   pending, result, counted_at_exit, wcs_read>>
    /\ UNCHANGED polled
    /\ UNCHANGED <<callVars, wcsVars>>

\* sleep(0.1 s); child.try_wait()?
TryWait ==
    /\ pc = "sleep"
    /\ \/ /\ child = "running"             \* None
          /\ polled' = "running"
          /\ pc' = "load"
          /\ UNCHANGED pending
       \/ /\ child # "running"             \* Some(_status) => break; Ok(())
          /\ polled' = "exited"
          /\ pending' = "Ok"
          /\ pc' = "join"
       \/ /\ polled' = "failed"            \* try_wait failed
          /\ pending' = "IoError"
          /\ pc' = "join"
    /\ UNCHANGED <<child, stdout_lines, written, num_iter, incs, seen, loaded, reader,
                   result, counted_at_exit, wcs_read>>
    /\ UNCHANGED <<callVars, wcsVars>>

\* num_iter.load(Ordering::Relaxed) >= 3 : a relaxed load returns the value
\* of some store not older than the one the thread read before.
Load ==
    /\ pc = "load"
    /\ \E k \in seen..incs :
        /\ seen' = k
        /\ loaded' = k % U8Modulus
        /\ pc' = IF k % U8Modulus >= MaxIter THEN "kill" ELSE "sleep"
    /\ UNCHANGED <<child, stdout_lines, written, num_iter, incs, reader, pending,
                   result, counted_at_exit, wcs_read>>
    /\ UNCHANGED polled
    /\ UNCHANGED <<callVars, wcsVars>>

\* child.kill()?; return Err(IterationsExceeded)
Kill ==
    /\ pc = "kill"
    /\ \/ /\ child' = IF child = "running" THEN "killed" ELSE child
          /\ counted_at_exit' = IF child = "running" THEN num_iter ELSE counted_at_exit
          /\ pending' = "IterationsExceeded"
       \/ /\ pending' = "IoError"          \* kill failed
          /\ UNCHANGED <<child, counted_at_exit>>
    /\ pc' = "join"
    /\ UNCHANGED <<stdout_lines, written, num_iter, incs, seen, loaded, reader,
                   result, wcs_read>>
    /\ UNCHANGED polled
    /\ UNCHANGED <<callVars, wcsVars>>

\* The end of the closure with a reader thread that nothing waits for
\* (std::thread::spawn in place of the scope).
JoinDetached ==
    /\ pc = "join"
    /\ IF pending = "Ok"
       THEN pc' = "parse" /\ UNCHANGED result
       ELSE result' = pending /\ pc' = "done"
    /\ UNCHANGED <<child, stdout_lines, written, num_iter, incs, seen, loaded, reader,
                   pending, counted_at_exit, wcs_read>>
    /\ UNCHANGED polled
    /\ UNCHANGED <<callVars, wcsVars>>

\* The scope ends when the reader thread has ended; a reader that panicked
\* makes the scope panic; an Err of the closure is returned by the `?`.
Join ==
    /\ pc = "join"
    /\ reader \in {"done", "panicked"}
    /\ IF reader = "panicked"
       THEN result' = "Panic" /\ pc' = "done"
       ELSE IF pending = "Ok"
       THEN pc' = "parse" /\ UNCHANGED result
       ELSE result' = pending /\ pc' = "done"
    /\ UNCHANGED <<child, stdout_lines, written, num_iter, incs, seen, loaded, reader,
                   pending, counted_at_exit, wcs_read>>
    /\ UNCHANGED polled
    /\ UNCHANGED <<callVars, wcsVars>>

\* What parse_wcs can return (SpecWcs models how).
ParseOutcomes == {"Ok", "IoError", "ParseFloatError", "Panic"}

\* let result = parse_wcs(img.with_extension("wcs")); result
ParseWcsCall ==
    /\ pc = "parse"
    /\ wcs_read' = TRUE
    /\ \E r \in ParseOutcomes : result' = r
    /\ pc' = "done"
    /\ UNCHANGED <<child, stdout_lines, written, num_iter, incs, seen, loaded, reader,
                   pending, counted_at_exit>>
    /\ UNCHANGED polled
    /\ UNCHANGED <<callVars, wcsVars>>

Init ==
    /\ pc = "spawn" /\ child = "none" /\ stdout_lines = <<>> /\ written = 0
    /\ num_iter = 0 /\ incs = 0 /\ seen = 0 /\ loaded = 0 /\ reader = "none"
    /\ pending = "none" /\ result = "none" /\ counted_at_exit = -1
    /\ wcs_read = FALSE /\ polled = "none"
    /\ CallIdle /\ WcsIdle

Next ==
    \/ Spawn
    \/ ChildWrite
    \/ ChildExit
    \/ ReaderNext
    \/ ReaderEof
    \/ TryWait
    \/ Load
    \/ Kill
    \/ Join
    \/ ParseWcsCall

Spec == Init /\ [][Next]_vars

\* C1: whenever 3 banners have been counted before the child process ends,
\* solve returns IterationsExceeded and never a parsed result.  (Read in the
\* claim's favour: runs in which try_wait or kill failed, or the reader
\* thread panicked, are left out.)
C1_ThreeBannersGiveIterationsExceeded ==
    (/\ pc = "done"
     /\ counted_at_exit >= MaxIter
     /\ pending # "IoError"
     /\ reader # "panicked")
        => (result = "IterationsExceeded" /\ ~wcs_read)

\* solve is about to call parse_wcs, or has called it
AtParseWcs == pc = "parse" \/ wcs_read

\* solve has returned from an error path of the monitor: spawn failed,
\* try_wait failed, or the kill branch was taken
MonitorFailed ==
    /\ pc = "done"
    /\ \/ child = "none"
       \/ polled = "failed"
       \/ pending \in {"IoError", "IterationsExceeded"}

\* C11: the .wcs file is opened only after try_wait has returned that the
\* child process exited and the reader thread has finished; on every error
\* path of the monitor solve returns the error and the .wcs file is never
\* read; IterationsExceeded is returned only if the last poll saw the child
\* running and the load gave a banner count of at least 3.
C11_WcsOpenedOnlyAfterExitSeen ==
    /\ AtParseWcs =>
          /\ polled = "exited"
          /\ child = "exited"
          /\ reader = "done"
          /\ pending = "Ok"
    /\ MonitorFailed =>
          /\ ~wcs_read
          /\ result \in {"IoError", "IterationsExceeded", "Panic"}
          /\ result = "Panic" => reader = "panicked"
    /\ result = "IterationsExceeded" =>
          /\ polled = "running"
          /\ loaded >= MaxIter
          /\ incs >= loaded
          /\ ~wcs_read

\* C11 witness: parse_wcs has read the .wcs file and solve has returned its
\* result, after try_wait saw the exit of a child whose banners the reader
\* thread had counted to the end
C11_Witness ==
    /\ pc = "done"
    /\ wcs_read
    /\ result = "Ok"
    /\ polled = "exited"
    /\ reader = "done"
    /\ incs = MaxIter

(***************************************************************************)
(* Angle (src/src/math.rs)                                                 *)
(*                                                                         *)
(* An Angle is an f64 holding degrees.  The model holds the binary64       *)
(* values that lie within a few units in the last place of a multiple of   *)
(* 1/DegUnit degree:                                                       *)
(*     [deg |-> n, ulp |-> u]  is  n / DegUnit + u * 2^-45  degrees,       *)
(* 2^-45 degree being the spacing of binary64 on [128, 256).  DegUnit is a *)
(* power of two, so every n / DegUnit is a binary64 value, and +, - are    *)
(* rounded to the spacing of the result (ties to even) as IEEE 754 rounds  *)
(* them; % (fmod) is exact.                                                *)
(***************************************************************************)

\* multiples of 1/DegUnit degree are the grid of the model
DegUnit == 64

\* Angle::from_degrees of n / DegUnit
from_degrees(n) == [deg |-> n, ulp |-> 0]

\* Angle::PI, Angle::TAU
PI == from_degrees(180 * DegUnit)
TAU == from_degrees(360 * DegUnit)

Abs(n) == IF n < 0 THEN -n ELSE n

Sign(a) ==
    IF a.deg > 0 THEN 1 ELSE IF a.deg < 0 THEN -1
    ELSE IF a.ulp > 0 THEN 1 ELSE IF a.ulp < 0 THEN -1 ELSE 0

Neg(a) == [deg |-> -a.deg, ulp |-> -a.ulp]

\* a < b, a <= b
Lt(a, b) == a.deg < b.deg \/ (a.deg = b.deg /\ a.ulp < b.ulp)
Le(a, b) == a = b \/ Lt(a, b)

\* The spacing of binary64 at |a|, in units of 2^-45 (1 below 256: every
\* value of the model below 256 is a binary64 value).  From 2048 on the
\* spacing is wider than the model's ulp range, and 16 rounds the same.
Spacing(a) ==
    LET m == IF Sign(a) < 0 THEN Neg(a) ELSE a
        AtLeast(k) == m.deg > k * DegUnit \/ (m.deg = k * DegUnit /\ m.ulp >= 0)
    IN  IF AtLeast(2048) THEN 16
        ELSE IF AtLeast(1024) THEN 8
        ELSE IF AtLeast(512) THEN 4
        ELSE IF AtLeast(256) THEN 2
        ELSE 1

\* u rounded to a multiple of g, ties to the even multiple
RoundEven(u, g) ==
    LET r == u % g
        lo == u - r
    IN  IF 2 * r < g THEN lo
        ELSE IF 2 * r > g THEN lo + g
        ELSE IF (lo \div g) % 2 = 0 THEN lo ELSE lo + g

\* the binary64 value nearest to the exact value a
Round(a) == [deg |-> a.deg, ulp |-> RoundEven(a.ulp, Spacing(a))]

\* impl Add for Angle, impl Sub for Angle
add(a, b) == Round([deg |-> a.deg + b.deg, ulp |-> a.ulp + b.ulp])
sub(a, b) == Round([deg |-> a.deg - b.deg, ulp |-> a.ulp - b.ulp])

\* impl Rem for Angle: f64 %, the remainder has the sign of the dividend
\* (b a positive grid value)
rem(a, b) ==
    LET s == Sign(a)
        m == IF s < 0 THEN Neg(a) ELSE a
        r == IF m.ulp >= 0
             THEN [deg |-> m.deg % b.deg, ulp |-> m.ulp]
             ELSE [deg |-> ((m.deg - 1) % b.deg) + 1, ulp |-> m.ulp]
    IN  IF s < 0 THEN Neg(r) ELSE r

\* Angle::normalize: ((self.0 % 360.0) + 360.0) % 360.0
normalize(a) == rem(add(rem(a, TAU), TAU), TAU)

\* x.radians() < 0.0 : to_radians multiplies by pi/180 and keeps the sign
radians_lt_zero(x) == Sign(x) < 0

\* x.radians() > std::f64::consts::PI : 180.0.to_radians() is PI itself
radians_gt_pi(x) == Lt(PI, x)

\* Angle::from_radians of r / 1000 rad, to the grid: r * (180 / pi),
\* with 180 / pi = 57.29578
from_radians(r) ==
    LET q == r \div 1000
        m == r % 1000
        k == (5729578 * DegUnit) \div 100
    IN  from_degrees(q * (k \div 1000) + (q * (k % 1000) + m * (k \div 1000)) \div 1000)

\* Angle::from_rotations of rot / 10^6 turns, to the grid: rot * 360
from_rotations(rot) ==
    LET q == rot \div 1000
        m == rot % 1000
    IN  from_degrees((q * 360 * DegUnit + (m * 360 * DegUnit) \div 1000) \div 1000)

\* Angle::rotations, in 10^-6 turns: self.0 / 360
rotations(a) == (a.deg * (1000000 \div DegUnit)) \div 360

\* How far from the grid the inputs lie, in units of 2^-45 degree.
MaxUlp == 2

\* Inputs of normalize: the binary64 values within MaxUlp of a multiple of
\* 20 degrees, up to MaxTurns turns either way.
MaxTurns == 2
NormalizeInputs ==
    {a \in [deg : {q * 20 * DegUnit : q \in (-18 * MaxTurns)..(18 * MaxTurns)},
            ulp : (-MaxUlp)..MaxUlp] : Round(a) = a}

NormalizeCall ==
    /\ \E a \in NormalizeInputs :
        /\ call' = [fn |-> "normalize", a |-> a]
        /\ out' = [fn |-> "normalize", a |-> normalize(a),
                   twice |-> normalize(normalize(a))]
    /\ UNCHANGED <<solveVars, wcsVars>>

InitPure == SolveIdle /\ CallIdle /\ WcsIdle

SpecAngle == InitPure /\ [][NormalizeCall]_vars

\* C7 (as claimed): normalize(a) lies in [0, 360), is congruent to a modulo
\* 360, and normalizing it again changes nothing.
C7_NormalizeIdempotent ==
    call.fn = "normalize" =>
        /\ Le(from_degrees(0), out.a) /\ Lt(out.a, TAU)
        /\ (out.a.deg - call.a.deg) % TAU.deg = 0 /\ out.a.ulp = call.a.ulp
        /\ out.twice = out.a

\* The part of C7 that the code keeps: the result lies in [0, 360).
NormalizeInRange ==
    call.fn = "normalize" => Le(from_degrees(0), out.a) /\ Lt(out.a, TAU)

(***************************************************************************)
(* Sidereal time (src/src/common.rs)                                       *)
(*                                                                         *)
(* A JulianDate or JulianInterval is an f64 of days; the model counts      *)
(* 1/DayUnit day.  Centuries are counted in 1/1000, turns in 10^-6, and    *)
(* the sum that greenwich_mean_sidereal_time hands to from_radians in      *)
(* 1/1000; the coefficients are the source's, rounded to these units.      *)
(***************************************************************************)

\* units of the model per day
DayUnit == 2

\* JulianDate::J2000, JulianInterval::YEAR
J2000 == 2451545 * DayUnit
YEAR == 36525 * DayUnit

\* JulianDate::frac: self.0 % 1.0
frac(jd) == IF jd >= 0 THEN jd % DayUnit ELSE -((-jd) % DayUnit)

\* ((julian_date - J2000) / YEAR).julian(), in 1/1000 century
centuries(jd) == ((jd - J2000) * 1000) \div YEAR

\* earth_rotation_angle:
\*   0.7790572732640 + 0.00273781191135448 * t + frac(jd)  turns, normalized
earth_rotation_angle(jd) ==
    LET t == jd - J2000
        era == 779057 + (27378 * t) \div (10 * DayUnit)
                 + frac(jd) * (1000000 \div DayUnit)
    IN  normalize(from_rotations(era))

\* 0.014506 + 4612.156534 t + 1.3915817 t^2 - 0.00000044 t^3
\*   - 0.000029956 t^4 - 0.0000000368 t^5,  in 1/1000 (t in 1/1000 century)
gmst_polynomial(t) ==
    LET t2 == (t * t) \div 1000
        t3 == (t2 * t) \div 1000
        t4 == (t3 * t) \div 1000
        t5 == (t4 * t) \div 1000
    IN  15 + (4612157 * t) \div 1000 + (1392 * t2) \div 1000
          - (44 * t3) \div 100000000
          - (29956 * t4) \div 1000000000
          - ((368 * t5) \div 100000) \div 100000

\* greenwich_mean_sidereal_time:
\*   Angle::from_radians(86400.0 * era.rotations() + polynomial)
greenwich_mean_sidereal_time(jd) ==
    LET t == centuries(jd)
        era == earth_rotation_angle(jd)
        gmst == (864 * rotations(era)) \div 10 + gmst_polynomial(t)
    IN  from_radians(gmst)

\* Dates: every 1/40 century up to MaxDateSteps steps either way of J2000,
\* and the first few units of DayUnit after each.
MaxDateSteps == 12
Dates ==
    {J2000 + k * (YEAR \div 40) + j : k \in (-MaxDateSteps)..MaxDateSteps, j \in 0..3}

GmstCall ==
    /\ \E jd \in Dates :
        /\ call' = [fn |-> "greenwich_mean_sidereal_time", date |-> jd]
        /\ out' = [fn |-> "greenwich_mean_sidereal_time",
                   era |-> earth_rotation_angle(jd),
                   p |-> gmst_polynomial(centuries(jd)),
                   gmst |-> greenwich_mean_sidereal_time(jd)]
    /\ UNCHANGED <<solveVars, wcsVars>>

SpecGmst == InitPure /\ [][GmstCall]_vars

\* the polynomial, taken as arcseconds, in grid units of the Angle
ArcsecondsToGrid(p) == (p * DegUnit) \div 3600000

\* C4: greenwich_mean_sidereal_time(jd) is ERA(jd) plus the polynomial
\* converted from arcseconds to degrees (to within one grid unit).
C4_GmstIsEraPlusPolynomial ==
    call.fn = "greenwich_mean_sidereal_time" =>
        Abs(out.gmst.deg - (out.era.deg + ArcsecondsToGrid(out.p))) <= 1

(***************************************************************************)
(* SkyCoord::alt_az (src/src/common.rs)                                    *)
(*                                                                         *)
(* The additions, subtractions, remainder and comparisons of alt_az are    *)
(* computed.  The trigonometric functions are not: sin, cos and tan are    *)
(* modelled by the sign of their result, atan2 by the binary64 values of   *)
(* the quadrant that the signs of its arguments select, asin by the values *)
(* of its range.  Where a sign depends on the rounding of to_radians (at a *)
(* zero of the function) or on magnitudes, every sign is possible.         *)
(***************************************************************************)

AnySign == {-1, 0, 1}

\* the exact place of a in one turn, [0, 360)
Turn(a) ==
    LET r == rem(a, TAU)
    IN  IF Sign(r) < 0 THEN [deg |-> r.deg + TAU.deg, ulp |-> r.ulp] ELSE r

\* Angle::sin, Angle::cos, Angle::tan: the possible signs of the result
sin(a) ==
    LET p == Turn(a)
    IN  IF p = from_degrees(0) THEN {0}
        ELSE IF p = PI THEN AnySign
        ELSE IF Lt(p, PI) THEN {1} ELSE {-1}

cos(a) ==
    LET p == Turn(a)
        q1 == from_degrees(90 * DegUnit)
        q3 == from_degrees(270 * DegUnit)
    IN  IF p = q1 \/ p = q3 THEN AnySign
        ELSE IF Lt(p, q1) \/ Lt(q3, p) THEN {1} ELSE {-1}

tan(a) == {s * c : s \in sin(a), c \in cos(a)}

\* the possible signs of a product and of a difference
SignMul(S, T) == {s * t : s \in S, t \in T}
SignSub(S, T) ==
    UNION {IF t = 0 THEN {s}
           ELSE IF s = 0 \/ s = -t THEN {-t}
           ELSE AnySign : s \in S, t \in T}

\* The binary64 angles on the eighth turns from -180 to 180 degrees and up
\* to MaxUlp units of 2^-45 degree around each.
TrigGrid ==
    {a \in [deg : {q * 45 * DegUnit : q \in -4..4}, ulp : (-MaxUlp)..MaxUlp] :
        Le(Neg(PI), a) /\ Le(a, PI)}

\* Angle::atan2(y, x), y and x given by sign: the result has the sign of y,
\* and lies within a quarter turn of zero iff x > 0.
atan2(sy, sx) ==
    LET right == from_degrees(90 * DegUnit)
        mag(a) == IF Sign(a) < 0 THEN Neg(a) ELSE a
    IN  {a \in TrigGrid :
            /\ Sign(a) = sy \/ (sy = 0 /\ sx < 0 /\ mag(a) = PI)
            /\ sy # 0 /\ sx > 0 => Le(mag(a), right)
            /\ sy # 0 /\ sx < 0 => Le(right, mag(a))
            /\ sy # 0 /\ sx = 0 => mag(a) = right
            /\ sy = 0 /\ sx >= 0 => a = from_degrees(0)}

\* Angle::asin: a value of [-90, 90] degrees
asin ==
    {a \in TrigGrid : Le(from_degrees(-90 * DegUnit), a) /\ Le(a, from_degrees(90 * DegUnit))}

\* let local_sidereal_time = (gmst + long) % Angle::TAU
local_sidereal_time(date, long) ==
    rem(add(greenwich_mean_sidereal_time(date), long), TAU)

\* let h = match local_sidereal_time - self.ra { ... }
hour_angle(lst, ra) ==
    LET x == sub(lst, ra)
    IN  IF radians_lt_zero(x) THEN add(x, TAU)
        ELSE IF radians_gt_pi(x) THEN sub(x, TAU)
        ELSE x

\* let az = match Angle::atan2(..) - Angle::PI { ... }
azimuth(at) ==
    LET x == sub(at, PI)
    IN  IF radians_lt_zero(x) THEN add(x, TAU) ELSE x

\* Inputs.  Right ascensions lie on the quarter turns from the sidereal time
\* of J2000 at Greenwich and up to MaxUlp units of 2^-45 degree around them.
MaxQuarter == 1
Quarters == {from_degrees(q * 90 * DegUnit) : q \in (-MaxQuarter)..MaxQuarter}
AltAzDates == {J2000, J2000 + 1}
RaInputs ==
    {a \in [deg : {(greenwich_mean_sidereal_time(J2000).deg + q * 90 * DegUnit) % TAU.deg :
                        q \in 0..3},
            ulp : (-MaxUlp)..MaxUlp] : Round(a) = a}

\* one call of alt_az in a behaviour
AltAzCall ==
    /\ call = NoCall
    /\ \E date \in AltAzDates, ra \in RaInputs, dec \in Quarters,
          lat \in Quarters, long \in Quarters :
        LET lst == local_sidereal_time(date, long)
            h == hour_angle(lst, ra)
            xs == SignSub(SignMul(cos(h), sin(lat)), SignMul(tan(dec), cos(lat)))
        IN  \E sy \in sin(h), sx \in xs :
              \E at \in atan2(sy, sx), alt \in asin :
                /\ call' = [fn |-> "alt_az", ra |-> ra, dec |-> dec, date |-> date,
                            lat |-> lat, long |-> long]
                /\ out' = [fn |-> "alt_az", lst |-> lst, x |-> sub(lst, ra), h |-> h,
                           alt |-> alt, az |-> azimuth(at)]
    /\ UNCHANGED <<solveVars, wcsVars>>

SpecAltAz == InitPure /\ [][AltAzCall]_vars

\* C2: alt_az returns (altitude, azimuth) with the altitude in [-90, 90]
\* degrees and the azimuth in [0, 360) degrees.
C2_AltAzRanges ==
    call.fn = "alt_az" =>
        /\ Le(from_degrees(-90 * DegUnit), out.alt)
        /\ Le(out.alt, from_degrees(90 * DegUnit))
        /\ Le(from_degrees(0), out.az)
        /\ Lt(out.az, TAU)

\* C3: the hour angle h lies in (-180, 180] degrees and is congruent to
\* LST - ra modulo 360 degrees.
C3_HourAngleFolded ==
    call.fn = "alt_az" =>
        /\ Lt(Neg(PI), out.h)
        /\ Le(out.h, PI)
        /\ (out.h.deg - out.x.deg) % TAU.deg = 0

(***************************************************************************)
(* WorldTransform (src/src/common.rs) over glam::DAffine2                  *)
(*                                                                         *)
(* Exact arithmetic: matrix entries, translations and pixel coordinates    *)
(* are integers (degrees in units of 1/DegUnit), and an affine map carries *)
(* the common denominator den of its entries, which is 1 until inverse()   *)
(* divides by the determinant.  The rounding of binary64 is not modelled   *)
(* here.                                                                   *)
(***************************************************************************)

dvec2(x, y) == [x |-> x, y |-> y]

\* the same array read by rows
from_rows_array(m) == [x_axis |-> dvec2(m[1], m[3]), y_axis |-> dvec2(m[2], m[4])]

\* glam::DMat2::from_cols_array: the array lists the columns
from_cols_array(m) == [x_axis |-> dvec2(m[1], m[2]), y_axis |-> dvec2(m[3], m[4])]

\* glam::DAffine2::from_mat2_translation over DMat2::from_cols_array
from_mat2_translation(mat2, translation) ==
    [matrix2 |-> from_cols_array(mat2),
     translation |-> dvec2(translation[1], translation[2]),
     den |-> 1]

\* glam::DMat2::determinant
determinant(m) == m.x_axis.x * m.y_axis.y - m.y_axis.x * m.x_axis.y

\* an inverse that keeps the translation of the map
inverse_linear_part(affine) ==
    LET m == affine.matrix2
    IN  [matrix2 |-> [x_axis |-> dvec2(m.y_axis.y, -m.x_axis.y),
                      y_axis |-> dvec2(-m.y_axis.x, m.x_axis.x)],
         translation |-> affine.translation,
         den |-> determinant(m)]

\* glam::DAffine2::inverse: matrix2.inverse(), and the translation is
\* -(matrix2.inverse() * translation); every entry is over den = determinant
inverse(affine) ==
    LET m == affine.matrix2
        t == affine.translation
        inv == [x_axis |-> dvec2(m.y_axis.y, -m.x_axis.y),
                y_axis |-> dvec2(-m.y_axis.x, m.x_axis.x)]
    IN  [matrix2 |-> inv,
         translation |-> dvec2(-(inv.x_axis.x * t.x + inv.y_axis.x * t.y),
                               -(inv.x_axis.y * t.x + inv.y_axis.y * t.y)),
         den |-> determinant(m)]

\* glam::DAffine2::transform_point2: matrix2 * p + translation, over den
transform_point2(affine, p) ==
    [x |-> affine.matrix2.x_axis.x * p.x + affine.matrix2.y_axis.x * p.y
             + affine.translation.x,
     y |-> affine.matrix2.x_axis.y * p.x + affine.matrix2.y_axis.y * p.y
             + affine.translation.y,
     den |-> affine.den]

\* SkyCoord::from_ra_dec
from_ra_dec(ra, dec) == [ra |-> ra, dec |-> dec, date |-> J2000]

\* WorldTransform::pixel_to_world
pixel_to_world(affine, pixel_coord) ==
    LET ra_dec == transform_point2(affine, dvec2(pixel_coord[1], pixel_coord[2]))
    IN  from_ra_dec(from_degrees(ra_dec.x), from_degrees(ra_dec.y))

\* WorldTransform::world_to_pixel; the pair is (x / den, y / den)
world_to_pixel(affine, world_coord) ==
    transform_point2(inverse(affine), dvec2(world_coord.ra.deg, world_coord.dec.deg))

MaxEntry == 1
MaxPixel == 1
Entries == (-MaxEntry)..MaxEntry
Pixels == 0..MaxPixel

\* WorldTransform::from_mat2_translation(mat2, translation)
FromMat2Translation ==
    /\ call = NoCall
    /\ \E m0 \in Entries, m1 \in Entries, m2 \in Entries, m3 \in Entries,
          t0 \in 0..MaxEntry, t1 \in 0..MaxEntry :
        /\ call' = [fn |-> "from_mat2_translation",
                    mat2 |-> <<m0, m1, m2, m3>>, translation |-> <<t0, t1>>]
        /\ out' = [fn |-> "from_mat2_translation",
                   affine |-> from_mat2_translation(<<m0, m1, m2, m3>>, <<t0, t1>>)]
    /\ UNCHANGED <<solveVars, wcsVars>>

\* transform.pixel_to_world(pixel) on the transform just built
PixelToWorld ==
    /\ call.fn = "from_mat2_translation"
    /\ \E x \in Pixels, y \in Pixels :
        /\ call' = [fn |-> "pixel_to_world", mat2 |-> call.mat2,
                    translation |-> call.translation, affine |-> out.affine,
                    pixel |-> <<x, y>>]
        /\ out' = [fn |-> "pixel_to_world",
                   coord |-> pixel_to_world(out.affine, <<x, y>>)]
    /\ UNCHANGED <<solveVars, wcsVars>>

\* transform.world_to_pixel(coord) on the coordinate just returned
WorldToPixel ==
    /\ call.fn = "pixel_to_world"
    /\ call' = [call EXCEPT !.fn = "world_to_pixel"]
    /\ out' = [fn |-> "world_to_pixel", coord |-> out.coord,
               xy |-> world_to_pixel(call.affine, out.coord)]
    /\ UNCHANGED <<solveVars, wcsVars>>

SpecTransform ==
    InitPure /\ [][FromMat2Translation \/ PixelToWorld \/ WorldToPixel]_vars

\* C5: for an invertible transform, world_to_pixel(pixel_to_world((x, y)))
\* is (x, y) in exact arithmetic.
C5_RoundTrip ==
    (call.fn = "world_to_pixel" /\ determinant(call.affine.matrix2) # 0) =>
        /\ out.xy.den # 0
        /\ out.xy.x = call.pixel[1] * out.xy.den
        /\ out.xy.y = call.pixel[2] * out.xy.den

\* C5 witness: a round trip through an invertible transform whose matrix is
\* not symmetric and whose translation is not zero, from a pixel off the axes
C5_Witness ==
    /\ call.fn = "world_to_pixel"
    /\ determinant(call.affine.matrix2) # 0
    /\ call.mat2[2] # call.mat2[3]
    /\ call.translation = <<1, 1>>
    /\ call.pixel = <<1, 1>>
    /\ out.xy.x = out.xy.den

\* C6: pixel_to_world((x, y)) has ra = m0 x + m2 y + t0, dec = m1 x + m3 y
\* + t1 and the date J2000.
C6_PixelToWorldColumnMajor ==
    call.fn = "pixel_to_world" =>
        LET m == call.mat2
            t == call.translation
            x == call.pixel[1]
            y == call.pixel[2]
        IN  /\ out.coord.ra = from_degrees(m[1] * x + m[3] * y + t[1])
            /\ out.coord.dec = from_degrees(m[2] * x + m[4] * y + t[2])
            /\ out.coord.date = 2451545 * DayUnit

\* C6 witness: a pixel off the axes under a matrix that is not symmetric
C6_Witness ==
    /\ call.fn = "pixel_to_world"
    /\ call.mat2 = <<1, -1, 1, 0>>
    /\ call.translation = <<0, 1>>
    /\ call.pixel = <<1, 1>>
    /\ out.coord.ra = from_degrees(2)
    /\ out.coord.dec = from_degrees(0)

(***************************************************************************)
(* extract_value (src/src/solver/astap.rs)                                 *)
(*                                                                         *)
(* A &str is a sequence of chars; char_indices and str::get count bytes,   *)
(* so each char has its length in UTF-8.                                   *)
(***************************************************************************)

\* '=', ' ', two ASCII characters and one character of two bytes
Chars == {"=", " ", "1", "A", "é"}

\* char::len_utf8
len_utf8(c) == IF c = "é" THEN 2 ELSE 1

\* Option<usize>::None
None == -1

\* the byte index of the k-th char of s (of the end of s for k = Len(s) + 1)
RECURSIVE ByteIndex(_, _)
ByteIndex(s, k) == IF k = 1 THEN 0 ELSE ByteIndex(s, k - 1) + len_utf8(s[k - 1])

\* for (i, c) in s.char_indices() { match (c, flag) { ... } }, from the k-th
\* char on; the value is (start_idx, end_idx) when the loop ends or breaks
RECURSIVE char_indices_loop(_, _, _, _, _)
char_indices_loop(s, k, flag, start_idx, end_idx) ==
    IF k > Len(s) THEN [start_idx |-> start_idx, end_idx |-> end_idx]
    ELSE LET c == s[k]
             i == ByteIndex(s, k)
         IN  IF c = "=" THEN char_indices_loop(s, k + 1, TRUE, start_idx, end_idx)
             ELSE IF c = " " /\ flag
                  THEN IF start_idx = None
                       THEN char_indices_loop(s, k + 1, flag, start_idx, end_idx)
                       ELSE [start_idx |-> start_idx, end_idx |-> end_idx]
             ELSE IF flag
                  THEN IF start_idx = None
                       THEN char_indices_loop(s, k + 1, flag, i, end_idx)
                       ELSE char_indices_loop(s, k + 1, flag, start_idx, i)
             ELSE char_indices_loop(s, k + 1, flag, start_idx, end_idx)

\* str::is_char_boundary
is_char_boundary(s, b) == \E k \in 1..(Len(s) + 1) : ByteIndex(s, k) = b

\* s.get(from..to).unwrap(): the chars of the byte range, or a panic when the
\* range is not one of s
get_unwrap(s, from, to) ==
    IF from <= to /\ is_char_boundary(s, from) /\ is_char_boundary(s, to)
    THEN LET first == CHOOSE k \in 1..(Len(s) + 1) : ByteIndex(s, k) = from
             last == CHOOSE k \in 1..(Len(s) + 1) : ByteIndex(s, k) = to
         IN  [panicked |-> FALSE, value |-> SubSeq(s, first, last - 1)]
    ELSE [panicked |-> TRUE, value |-> <<>>]

\* extract_value; start_idx.unwrap() panics on None
extract_value(s) ==
    LET r == char_indices_loop(s, 1, FALSE, None, None)
    IN  IF r.start_idx = None THEN [panicked |-> TRUE, value |-> <<>>]
        ELSE IF r.end_idx # None THEN get_unwrap(s, r.start_idx, r.end_idx + 1)
        ELSE get_unwrap(s, r.start_idx, ByteIndex(s, Len(s) + 1))

MaxLen == 5
Strings == UNION {[1..n -> Chars] : n \in 0..MaxLen}

\* one call of extract_value in a behaviour
ExtractValueCall ==
    /\ call = NoCall
    /\ \E s \in Strings :
        /\ call' = [fn |-> "extract_value", s |-> s]
        /\ out' = [fn |-> "extract_value", returned |-> extract_value(s)]
    /\ UNCHANGED <<solveVars, wcsVars>>

SpecExtract == InitPure /\ [][ExtractValueCall]_vars

Min(S) == CHOOSE x \in S : \A y \in S : x <= y

\* where VALUE starts and ends in a line KEY '=' spaces VALUE [' ' text]
ValueStart(s) ==
    LET eq == Min({k \in 1..Len(s) : s[k] = "="})
    IN  Min({k \in (eq + 1)..Len(s) : s[k] # " "})
ValueEnd(s) ==
    LET after == {k \in ValueStart(s)..Len(s) : s[k] = " "}
    IN  IF after = {} THEN Len(s) ELSE Min(after) - 1

\* s has the form KEY '=' spaces VALUE [' ' text], VALUE without ' ' and '='
HasKeyValueForm(s) ==
    /\ \E k \in 1..Len(s) : s[k] = "="
    /\ LET eq == Min({k \in 1..Len(s) : s[k] = "="})
       IN  /\ \E k \in (eq + 1)..Len(s) : s[k] # " "
           /\ ValueStart(s) > eq + 1
           /\ \A k \in ValueStart(s)..ValueEnd(s) : s[k] # "="

\* C9: on a line KEY '=' spaces VALUE, then the end of the line or a space
\* and any text, extract_value returns exactly VALUE.
C9_ExtractValueReturnsValue ==
    (call.fn = "extract_value" /\ HasKeyValueForm(call.s)) =>
        /\ ~out.returned.panicked
        /\ out.returned.value = SubSeq(call.s, ValueStart(call.s), ValueEnd(call.s))

\* The part of C9 that the code keeps: a VALUE of two or more ASCII chars.
ExtractValueOfLongAsciiValue ==
    (/\ call.fn = "extract_value"
     /\ HasKeyValueForm(call.s)
     /\ ValueEnd(call.s) > ValueStart(call.s)
     /\ \A k \in 1..Len(call.s) : len_utf8(call.s[k]) = 1) =>
        /\ ~out.returned.panicked
        /\ out.returned.value = SubSeq(call.s, ValueStart(call.s), ValueEnd(call.s))

(***************************************************************************)
(* parse_wcs (src/src/solver/astap.rs)                                     *)
(*                                                                         *)
(* A line of the .wcs file is its key (what the line starts with) and what *)
(* the extraction of its value gives: an f64, a text that parse::<f64>     *)
(* rejects, or no value at all (extract_value, or find("FOV=") and the     *)
(* slice after it, panic).  A line may also fail to be read.               *)
(***************************************************************************)

\* the keys that parse_wcs tests with starts_with, in its order
WcsKeys == <<"CRVAL1", "CRVAL2", "CDELT1", "CROTA1", "WARNING">>

\* keys of the file that parse_wcs does not test
OtherKeys == {"CD1_1", "CD1_2", "CD2_1", "CD2_2", "COMMENT"}

MaxValue == 2
Values == {-MaxValue, 1}

WcsLines ==
    [kind : {"line"},
     key : {WcsKeys[i] : i \in DOMAIN WcsKeys} \cup OtherKeys,
     value : {"f64"}, v : Values]
    \cup [kind : {"line"},
          key : {WcsKeys[i] : i \in DOMAIN WcsKeys} \cup OtherKeys,
          value : {"not_f64", "no_value"}, v : {0}]
    \cup [kind : {"io_error"}, key : {"COMMENT"}, value : {"no_value"}, v : {0}]

MaxWcsLines == 2
WcsFiles == UNION {[1..n -> WcsLines] : n \in 0..MaxWcsLines}

\* PlateSolveResult::default()
PlateSolveResultDefault ==
    [ra |-> 0, dec |-> 0, fov |-> 0, pixel_scale |-> 0, orientation |-> 0]

\* the field that a line of the given key sets, and the value it is given
FieldOf(key) ==
    CASE key = "CRVAL1" -> "ra"
      [] key = "CRVAL2" -> "dec"
      [] key = "CDELT1" -> "pixel_scale"
      [] key = "CROTA1" -> "orientation"
      [] key = "WARNING" -> "fov"
ValueOf(key, v) == IF key = "CDELT1" THEN Abs(v) ELSE v

\* let reader = BufReader::new(File::open(wcs_path)?)
WcsOpen ==
    /\ wcs_pc = "open"
    /\ \/ /\ wcs_pc' = "reading"
          /\ wcs_result' = PlateSolveResultDefault
       \/ /\ wcs_pc' = "IoError"
          /\ UNCHANGED wcs_result
    /\ UNCHANGED <<wcs_lines, wcs_last>>
    /\ UNCHANGED <<solveVars, callVars>>

\* one turn of: for line in reader.lines() { let line = line?; if .. else if .. }
WcsLine ==
    /\ wcs_pc = "reading"
    /\ wcs_lines # <<>>
    /\ LET line == Head(wcs_lines) IN
        /\ wcs_lines' = Tail(wcs_lines)
        /\ wcs_last' = [line |-> line, before |-> wcs_result]
        /\ IF line.kind = "io_error"
           THEN wcs_pc' = "IoError" /\ UNCHANGED wcs_result
           ELSE IF line.key \in OtherKeys
           THEN UNCHANGED <<wcs_pc, wcs_result>>
           ELSE IF line.value = "no_value"
           THEN wcs_pc' = "panic" /\ UNCHANGED wcs_result
           ELSE IF line.value = "not_f64"
           THEN wcs_pc' = "ParseFloatError" /\ UNCHANGED wcs_result
           ELSE /\ wcs_result' =
                      [wcs_result EXCEPT ![FieldOf(line.key)] = ValueOf(line.key, line.v)]
                /\ UNCHANGED wcs_pc
    /\ UNCHANGED <<solveVars, callVars>>

\* the lines are exhausted: Ok(result)
WcsEof ==
    /\ wcs_pc = "reading"
    /\ wcs_lines = <<>>
    /\ wcs_pc' = "Ok"
    /\ UNCHANGED <<wcs_lines, wcs_result, wcs_last>>
    /\ UNCHANGED <<solveVars, callVars>>

InitWcs ==
    /\ SolveIdle /\ CallIdle
    /\ wcs_pc = "open"
    /\ wcs_lines \in WcsFiles
    /\ wcs_result = NoCall
    /\ wcs_last = NoCall

SpecWcs == InitWcs /\ [][WcsOpen \/ WcsLine \/ WcsEof]_vars

\* the keys that the result is assembled from, as claimed
ClaimedKeys == {"CRVAL1", "CRVAL2", "CD1_1", "CD1_2", "CD2_1", "CD2_2"}

\* C8: the result is assembled from the values of CRVAL1, CRVAL2, CD1_1,
\* CD1_2, CD2_1 and CD2_2; a line with any other key does not change it.
C8_OnlyClaimedKeysChangeResult ==
    (/\ wcs_last # NoCall
     /\ wcs_last.line.kind = "line"
     /\ wcs_last.line.key \notin ClaimedKeys) => wcs_result = wcs_last.before

\* The part of C8 that the code keeps: CRVAL1 and CRVAL2 set ra and dec.
WcsCrvalSetsRaDec ==
    (/\ wcs_last # NoCall
     /\ wcs_last.line.kind = "line"
     /\ wcs_last.line.value = "f64") =>
        /\ wcs_last.line.key = "CRVAL1" => wcs_result.ra = wcs_last.line.v
        /\ wcs_last.line.key = "CRVAL2" => wcs_result.dec = wcs_last.line.v

(***************************************************************************)
(* AstapSolver::new (src/src/solver/astap.rs)                              *)
(*                                                                         *)
(* A file name is a sequence of pieces, the dots of the name being pieces  *)
(* of their own: astap_cli.exe is <<"astap_cli", ".", "exe">>.  The ASTAP  *)
(* folder of the host is the set of the names of its entries.              *)
(***************************************************************************)

Dot == "."

\* the places of the dots that can start an extension: a dot at the
\* beginning of the name does not
ExtensionDots(name) == {k \in 2..Len(name) : name[k] = Dot}

Max(S) == CHOOSE x \in S : \A y \in S : x >= y

\* Path::file_stem, Path::extension (None: the empty sequence)
file_stem(name) ==
    IF ExtensionDots(name) = {} THEN name
    ELSE SubSeq(name, 1, Max(ExtensionDots(name)) - 1)
extension(name) ==
    IF ExtensionDots(name) = {} THEN <<>>
    ELSE SubSeq(name, Max(ExtensionDots(name)) + 1, Len(name))

\* PathBuf::set_extension: the stem, a dot, and the extension as it is given
set_extension(name, ext) ==
    IF ext = <<>> THEN file_stem(name) ELSE file_stem(name) \o <<Dot>> \o ext

OperatingSystems == {"linux", "macos", "windows", "freebsd"}

\* AstapSolver::base_path: the extension of the executable, or that the OS
\* is not supported
base_path(os) ==
    CASE os = "linux" -> [supported |-> TRUE, extension |-> <<>>]
      [] os = "macos" -> [supported |-> TRUE, extension |-> <<>>]
      [] os = "windows" -> [supported |-> TRUE, extension |-> <<Dot, "exe">>]
      [] OTHER -> [supported |-> FALSE, extension |-> <<>>]

\* [base_path, "astap_cli"].iter().collect(), then set_extension
cli_path(os) ==
    IF base_path(os).extension = <<>> THEN <<"astap_cli">>
    ELSE set_extension(<<"astap_cli">>, base_path(os).extension)

\* matches!(os_str.to_str(), Some("290") | Some("1476") | Some("001"))
IsDatabase(name) == extension(name) \in {<<"290">>, <<"1476">>, <<"001">>}

\* AstapSolver::new on a host with the given folder; the two filesystem
\* calls may fail
new(os, folder, try_exists_fails, read_dir_fails) ==
    IF ~base_path(os).supported THEN "UnsupportedOs"
    ELSE IF try_exists_fails THEN "IoError"
    ELSE IF cli_path(os) \notin folder THEN "SolverNotFound"
    ELSE IF read_dir_fails THEN "IoError"
    ELSE IF ~\E name \in folder : IsDatabase(name) THEN "DatabaseNotFound"
    ELSE "Ok"

FileNames ==
    {<<"astap_cli">>, <<"astap_cli", Dot, "exe">>, <<"astap_cli", Dot, Dot, "exe">>,
     <<"d50", Dot, "290">>, <<"h18", Dot, "1476">>, <<"w08", Dot, "001">>,
     <<"readme", Dot, "txt">>}

\* one call of AstapSolver::new in a behaviour
NewCall ==
    /\ call = NoCall
    /\ \E os \in OperatingSystems, folder \in SUBSET FileNames,
          try_exists_fails \in BOOLEAN, read_dir_fails \in BOOLEAN :
        /\ call' = [fn |-> "new", os |-> os, folder |-> folder,
                    try_exists_fails |-> try_exists_fails,
                    read_dir_fails |-> read_dir_fails]
        /\ out' = [fn |-> "new",
                   returned |-> new(os, folder, try_exists_fails, read_dir_fails)]
    /\ UNCHANGED <<solveVars, wcsVars>>

SpecNew == InitPure /\ [][NewCall]_vars

\* the name of the astap_cli executable on the host
Executable(os) ==
    IF os = "windows" THEN <<"astap_cli", Dot, "exe">> ELSE <<"astap_cli">>

\* C10: without I/O failures, new returns Ok iff the OS is linux, macos or
\* windows, the astap_cli executable is in the ASTAP folder and the folder
\* has an entry with the extension 290, 1476 or 001; otherwise the error of
\* the first failing check.
C10_NewOkIffInstalled ==
    (call.fn = "new" /\ ~call.try_exists_fails /\ ~call.read_dir_fails) =>
        out.returned =
            IF call.os \notin {"linux", "macos", "windows"} THEN "UnsupportedOs"
            ELSE IF Executable(call.os) \notin call.folder THEN "SolverNotFound"
            ELSE IF ~\E name \in call.folder :
                        extension(name) \in {<<"290">>, <<"1476">>, <<"001">>}
                 THEN "DatabaseNotFound"
            ELSE "Ok"

\* The part of C10 that the code keeps: the same on linux and macos.
NewOkIffInstalledOffWindows ==
    (call.fn = "new" /\ call.os # "windows") => C10_NewOkIffInstalled

====
